---- MODULE Spec2Model ----
(***************************************************************************)
(* Manual Workflow Trigger Service (src/main.py, v2.2).                    *)
(*                                                                         *)
(* POST /trigger-workflow, behind the service_auth_required decorator      *)
(* (401 without a Bearer header, 403 for a token that fails verification), *)
(* claims 'received' articles in Firestore in                              *)
(* batches (one transaction per batch), publishes one Pub/Sub message per  *)
(* claimed article, and answers with the number of articles queued.        *)
(*                                                                         *)
(* Each element of Runs is one invocation of start_workflow; its batch_id  *)
(* (a fresh uuid4) is modelled by the run's own name.  The Firestore       *)
(* transaction of update_docs_and_prepare_messages is modelled in two      *)
(* steps, the read (TxRead) and the commit (TxCommit / TxConflict): the    *)
(* commit succeeds only when no document read was changed in between,      *)
(* which is the isolation the store gives.                                 *)
(***************************************************************************)
EXTENDS Integers, Sequences, FiniteSets

\* ------------------------------------------------------------------ bounds
NumItems == 3           \* documents that may exist in the collection
MaxBatchSize == 2       \* BATCH_SIZE ranges over 1..MaxBatchSize
MaxCap == 3             \* MAX_DOCUMENTS_PER_REQUEST ranges over 1..MaxCap
MaxAttempts == 2        \* commit attempts of one transactional call

\* the concurrent invocations of start_workflow, each named by the batch_id it draws
Runs == {"batch-1", "batch-2"}
Items == 1..NumItems
\* the batchId field of a document no run has claimed
NoBatch == "none"

VARIABLES
    BATCH_SIZE,                 \* Config.BATCH_SIZE
    MAX_DOCUMENTS_PER_REQUEST,  \* Config.MAX_DOCUMENTS_PER_REQUEST
    store,                      \* the collection: item -> [status, queuedAt, batchId]
    sink,                       \* messages handed to publisher.publish: <<documentId, batchId>> -> count
    acked,                      \* messages the sink acknowledged: <<documentId, batchId>> -> count
    failed,                     \* messages whose publish failed: <<documentId, batchId>> -> count
    pc,                         \* where each invocation of start_workflow stands
    total_processed,            \* start_workflow's local total_processed
    messages_to_publish,        \* the list built by update_docs_and_prepare_messages
    attempts,                   \* commit attempts used by the current transactional call
    response,                   \* the HTTP response of the invocation ([code |-> 0]: none yet)
    iterations,                 \* history: while-loop iterations begun by the run
    batches,                    \* history: length of each list a claim call returned
    claimed,                    \* history: item -> times a claim call returned it to the run
    auth_header,                \* request.headers.get("Authorization") of the run's request
    awaited,                    \* documentIds whose future.result() the run has called
    error_log                   \* entries the except branch of start_workflow logged for the run

vars == <<BATCH_SIZE, MAX_DOCUMENTS_PER_REQUEST, store, sink, acked, failed, pc,
          total_processed, messages_to_publish, attempts, response,
          iterations, batches, claimed, auth_header, awaited, error_log>>

\* the payloads {"documentId": doc_id, "batchId": batch_id}, as <<documentId, batchId>>
Messages == Items \X Runs

\* ------------------------------------------------------------------ helpers
\* The history counters stop one above the largest value a run can reach
\* (a run begins at most MAX_DOCUMENTS_PER_REQUEST iterations), so that they stay finite.
HistoryCap == MaxCap + 1

CountUp(n) == IF n < HistoryCap THEN n + 1 ELSE n

Record(seq, n) == IF Len(seq) < HistoryCap THEN Append(seq, n) ELSE seq

\* S in ascending order (Firestore streams a query without order_by by document id)
SortedSeq(S) ==
    CHOOSE s \in [1..Cardinality(S) -> S] : \A a, b \in 1..Cardinality(S) : a < b => s[a] < s[b]

\* the n first elements of S in that order
FirstN(S, n) == {i \in S : Cardinality({j \in S : j < i}) < n}

DocIds(msgs) == {msgs[k].documentId : k \in 1..Len(msgs)}

Received == {i \in Items : store[i].status = "received"}

\* mutant of docs_query: the limit is left out
docs_query_unlimited == Received

\* db.collection(...).where("status", "==", "received").limit(Config.BATCH_SIZE)
docs_query == FirstN(Received, BATCH_SIZE)

\* the loop of update_docs_and_prepare_messages over the streamed documents
PrepareMessages(docs, batch_id) ==
    LET ordered == SortedSeq(docs)
        kept == SelectSeq(ordered, LAMBDA i : store[i].status = "received")
    IN  [k \in 1..Len(kept) |-> [documentId |-> kept[k], batchId |-> batch_id]]

\* transaction.update(doc.reference, {...}) for every message prepared
ApplyUpdates(msgs, batch_id) ==
    [i \in Items |->
        IF i \in DocIds(msgs)
        THEN [status |-> "queued", queuedAt |-> "server_timestamp", batchId |-> batch_id]
        ELSE store[i]]

\* mutant of Conflict: the read and the write are not one transaction, the write goes through
ConflictUnchecked(r) == FALSE

\* the commit finds a document of the transaction changed since it was read
Conflict(r) == \E i \in DocIds(messages_to_publish[r]) : store[i].status # "received"

AddAll(bag, msgs) ==
    [m \in Messages |->
        bag[m] + Cardinality({k \in 1..Len(msgs) : <<msgs[k].documentId, msgs[k].batchId>> = m})]

\* ------------------------------------------------------------------ initial state
Init ==
    /\ BATCH_SIZE \in 1..MaxBatchSize
    /\ MAX_DOCUMENTS_PER_REQUEST \in 1..MaxCap
    /\ store \in [Items -> {[status |-> "absent", queuedAt |-> "none", batchId |-> NoBatch],
                            [status |-> "received", queuedAt |-> "none", batchId |-> NoBatch]}]
    /\ sink = [m \in Messages |-> 0]
    /\ acked = [m \in Messages |-> 0]
    /\ failed = [m \in Messages |-> 0]
    /\ pc = [r \in Runs |-> "idle"]
    /\ total_processed = [r \in Runs |-> 0]
    /\ messages_to_publish = [r \in Runs |-> <<>>]
    /\ attempts = [r \in Runs |-> 0]
    /\ response = [r \in Runs |-> [code |-> 0]]
    /\ iterations = [r \in Runs |-> 0]
    /\ batches = [r \in Runs |-> <<>>]
    /\ claimed = [r \in Runs |-> [i \in Items |-> 0]]
    /\ auth_header = [r \in Runs |-> <<>>]
    /\ awaited = [r \in Runs |-> {}]
    /\ error_log = [r \in Runs |-> {}]

\* ------------------------------------------------------------------ responses
Success(r) == [code |-> 200, processedCount |-> total_processed[r], batchId |-> r]

\* the except branch of start_workflow: the body holds status and message only
InternalError == [code |-> 500]

\* the two early returns of service_auth_required
Unauthorized == [code |-> 401]

Forbidden == [code |-> 403]

\* an exception left decorated_function: the framework answers, not the handler
Unhandled == [code |-> 500, escaped |-> TRUE]

\* the entry the except branch of start_workflow logs: the batch id and the text
\* of the exception, no document id
ErrorEntry(r) == [batchId |-> r, documentIds |-> {}]

\* the first future of the batch whose result() raises
FirstOf(F) == CHOOSE k \in F : \A j \in F : k <= j

\* ------------------------------------------------------------------ auth decorator
\* A header value is the sequence of its pieces: the literal "Bearer ", another
\* scheme, or the text of a token.  A request without the header (None) and one
\* with an empty header are both <<>>.
Tokens == {"valid", "expired", "badsig", "otheraud"}

Headers ==
    {<<>>, <<"Basic ", "valid">>, <<"Bearer ">>, <<"Bearer ", "Bearer ", "valid">>}
        \cup {<<"Bearer ", t>> : t \in Tokens}

\* auth_header.startswith("Bearer ")
StartsWithBearer(h) == Len(h) >= 1 /\ h[1] = "Bearer "

\* auth_header.split("Bearer ")[1] for a header that starts with "Bearer ": the
\* text between the first "Bearer " and the next one (or the end)
SplitBearer(h) ==
    LET rest == SubSeq(h, 2, Len(h))
        stops == {k \in 1..Len(rest) : rest[k] = "Bearer "}
        last == IF stops = {} THEN Len(rest)
                ELSE (CHOOSE k \in stops : \A j \in stops : k <= j) - 1
    IN  SubSeq(rest, 1, last)

\* id_token.verify_oauth2_token(token, Request(), audience=TARGET_AUDIENCE):
\* returns for the token signed for this service, raises ValueError for any
\* other text, and for any token may raise an error that is not a ValueError
\* (the certificates cannot be fetched)
verify_oauth2_token(token) ==
    (IF token = <<"valid">> THEN {"ok"} ELSE {"ValueError"}) \cup {"OtherError"}

\* mutant of Verdict: a token that fails verification is let through
VerdictLenient(h, v) ==
    IF h = <<>> \/ ~StartsWithBearer(h)
    THEN v = "missing"
    ELSE v \in verify_oauth2_token(SplitBearer(h)) \cup {"ok"}

\* what decorated_function can do with the header h
Verdict(h, v) ==
    IF h = <<>> \/ ~StartsWithBearer(h)
    THEN v = "missing"
    ELSE v \in verify_oauth2_token(SplitBearer(h))

\* ------------------------------------------------------------------ actions
\* the token of the request is verified, decorated_function calls start_workflow;
\* batch_id is drawn, the clients are fetched
Start(r) ==
    /\ pc[r] = "idle"
    /\ pc' = [pc EXCEPT ![r] = "loop"]
    /\ UNCHANGED <<BATCH_SIZE, MAX_DOCUMENTS_PER_REQUEST, store, sink, acked, failed,
                   total_processed, messages_to_publish, attempts, response,
                   iterations, batches, claimed>>
    /\ \E h \in Headers : Verdict(h, "ok") /\ auth_header' = [auth_header EXCEPT ![r] = h]
    /\ UNCHANGED <<awaited, error_log>>

\* get_firestore_client or get_pubsub_publisher raises: caught, answered 500
ClientInitFail(r) ==
    /\ pc[r] = "idle"
    /\ pc' = [pc EXCEPT ![r] = "done"]
    /\ response' = [response EXCEPT ![r] = InternalError]
    /\ UNCHANGED <<BATCH_SIZE, MAX_DOCUMENTS_PER_REQUEST, store, sink, acked, failed,
                   total_processed, messages_to_publish, attempts, iterations,
                   batches, claimed>>
    /\ \E h \in Headers : Verdict(h, "ok") /\ auth_header' = [auth_header EXCEPT ![r] = h]
    /\ error_log' = [error_log EXCEPT ![r] = @ \cup {ErrorEntry(r)}]
    /\ UNCHANGED awaited

\* no header, or one that does not start with "Bearer ": answered 401
AuthMissing(r) ==
    /\ pc[r] = "idle"
    /\ \E h \in Headers : Verdict(h, "missing") /\ auth_header' = [auth_header EXCEPT ![r] = h]
    /\ pc' = [pc EXCEPT ![r] = "done"]
    /\ response' = [response EXCEPT ![r] = Unauthorized]
    /\ UNCHANGED <<BATCH_SIZE, MAX_DOCUMENTS_PER_REQUEST, store, sink, acked, failed,
                   total_processed, messages_to_publish, attempts, iterations,
                   batches, claimed, awaited, error_log>>

\* verify_oauth2_token raises ValueError: a warning is logged, answered 403
AuthInvalid(r) ==
    /\ pc[r] = "idle"
    /\ \E h \in Headers : Verdict(h, "ValueError") /\ auth_header' = [auth_header EXCEPT ![r] = h]
    /\ pc' = [pc EXCEPT ![r] = "done"]
    /\ response' = [response EXCEPT ![r] = Forbidden]
    /\ UNCHANGED <<BATCH_SIZE, MAX_DOCUMENTS_PER_REQUEST, store, sink, acked, failed,
                   total_processed, messages_to_publish, attempts, iterations,
                   batches, claimed, awaited, error_log>>

\* verify_oauth2_token raises something that is not a ValueError: the except
\* clause does not match and the exception leaves decorated_function
AuthRaise(r) ==
    /\ pc[r] = "idle"
    /\ \E h \in Headers : Verdict(h, "OtherError") /\ auth_header' = [auth_header EXCEPT ![r] = h]
    /\ pc' = [pc EXCEPT ![r] = "done"]
    /\ response' = [response EXCEPT ![r] = Unhandled]
    /\ UNCHANGED <<BATCH_SIZE, MAX_DOCUMENTS_PER_REQUEST, store, sink, acked, failed,
                   total_processed, messages_to_publish, attempts, iterations,
                   batches, claimed, awaited, error_log>>

\* mutant of LoopTest: the cap is compared with <=
LoopTestInclusive(r) == total_processed[r] <= MAX_DOCUMENTS_PER_REQUEST

\* the while test of start_workflow
LoopTest(r) == total_processed[r] < MAX_DOCUMENTS_PER_REQUEST

\* mutant of TxRead: the messages are published from inside the transaction,
\* before it commits
TxReadPublishing(r) ==
    /\ pc[r] = "loop"
    /\ LoopTest(r)
    /\ messages_to_publish' =
           [messages_to_publish EXCEPT ![r] = PrepareMessages(docs_query, r)]
    /\ sink' = AddAll(sink, PrepareMessages(docs_query, r))
    /\ iterations' = [iterations EXCEPT ![r] = IF attempts[r] = 0 THEN CountUp(@) ELSE @]
    /\ attempts' = [attempts EXCEPT ![r] = @ + 1]
    /\ pc' = [pc EXCEPT ![r] = "tx"]
    /\ UNCHANGED <<BATCH_SIZE, MAX_DOCUMENTS_PER_REQUEST, store, acked, failed,
                   total_processed, response, batches, claimed>>
    /\ UNCHANGED <<auth_header, awaited, error_log>>

\* one attempt of update_docs_and_prepare_messages up to its return: the query is
\* streamed inside the transaction, the messages are built, the updates are buffered
TxRead(r) ==
    /\ pc[r] = "loop"
    /\ LoopTest(r)
    /\ messages_to_publish' =
           [messages_to_publish EXCEPT ![r] = PrepareMessages(docs_query, r)]
    /\ iterations' = [iterations EXCEPT ![r] = IF attempts[r] = 0 THEN CountUp(@) ELSE @]
    /\ attempts' = [attempts EXCEPT ![r] = @ + 1]
    /\ pc' = [pc EXCEPT ![r] = "tx"]
    /\ UNCHANGED <<BATCH_SIZE, MAX_DOCUMENTS_PER_REQUEST, store, sink, acked, failed,
                   total_processed, response, batches, claimed>>
    /\ UNCHANGED <<auth_header, awaited, error_log>>

\* mutant of TxCommit: an empty list does not end the loop (continue for break)
TxCommitNoBreak(r) ==
    /\ pc[r] = "tx"
    /\ ~Conflict(r)
    /\ store' = ApplyUpdates(messages_to_publish[r], r)
    /\ attempts' = [attempts EXCEPT ![r] = 0]
    /\ batches' = [batches EXCEPT ![r] =
                      IF messages_to_publish[r] = <<>> THEN @ ELSE Record(@, Len(messages_to_publish[r]))]
    /\ claimed' = [claimed EXCEPT ![r] =
                      [i \in Items |-> @[i] + (IF i \in DocIds(messages_to_publish[r]) THEN 1 ELSE 0)]]
    /\ pc' = [pc EXCEPT ![r] = IF messages_to_publish[r] = <<>> THEN "loop" ELSE "publish"]
    /\ UNCHANGED <<BATCH_SIZE, MAX_DOCUMENTS_PER_REQUEST, sink, acked, failed,
                   total_processed, messages_to_publish, iterations, response>>
    /\ UNCHANGED <<auth_header, awaited, error_log>>

\* mutant of TxCommit: an empty list is taken for a failure and answered 500
TxCommitEmptyFails(r) ==
    /\ pc[r] = "tx"
    /\ ~Conflict(r)
    /\ store' = ApplyUpdates(messages_to_publish[r], r)
    /\ attempts' = [attempts EXCEPT ![r] = 0]
    /\ batches' = [batches EXCEPT ![r] = Record(@, Len(messages_to_publish[r]))]
    /\ claimed' = [claimed EXCEPT ![r] =
                      [i \in Items |-> @[i] + (IF i \in DocIds(messages_to_publish[r]) THEN 1 ELSE 0)]]
    /\ IF messages_to_publish[r] = <<>>
       THEN /\ pc' = [pc EXCEPT ![r] = "done"]
            /\ response' = [response EXCEPT ![r] = InternalError]
       ELSE /\ pc' = [pc EXCEPT ![r] = "publish"]
            /\ UNCHANGED response
    /\ UNCHANGED <<BATCH_SIZE, MAX_DOCUMENTS_PER_REQUEST, sink, acked, failed,
                   total_processed, messages_to_publish, iterations>>
    /\ error_log' = [error_log EXCEPT ![r] = @ \cup {ErrorEntry(r)}]
    /\ UNCHANGED <<auth_header, awaited>>

\* the commit succeeds: the buffered updates are applied at once and the list is
\* returned; an empty list ends the loop (break) and the success response is sent
TxCommit(r) ==
    /\ pc[r] = "tx"
    /\ ~Conflict(r)
    /\ store' = ApplyUpdates(messages_to_publish[r], r)
    /\ attempts' = [attempts EXCEPT ![r] = 0]
    /\ batches' = [batches EXCEPT ![r] = Record(@, Len(messages_to_publish[r]))]
    /\ claimed' = [claimed EXCEPT ![r] =
                      [i \in Items |-> @[i] + (IF i \in DocIds(messages_to_publish[r]) THEN 1 ELSE 0)]]
    /\ IF messages_to_publish[r] = <<>>
       THEN /\ pc' = [pc EXCEPT ![r] = "done"]
            /\ response' = [response EXCEPT ![r] = Success(r)]
       ELSE /\ pc' = [pc EXCEPT ![r] = "publish"]
            /\ UNCHANGED response
    /\ UNCHANGED <<BATCH_SIZE, MAX_DOCUMENTS_PER_REQUEST, sink, acked, failed,
                   total_processed, messages_to_publish, iterations>>
    /\ UNCHANGED <<auth_header, awaited, error_log>>

\* mutant of TxConflict: the updates are sent one by one outside a transaction, so
\* those of the documents still 'received' go through before the refusal is seen
TxConflictPartial(r) ==
    /\ pc[r] = "tx"
    /\ Conflict(r)
    /\ attempts[r] < MaxAttempts
    /\ store' = ApplyUpdates(SelectSeq(messages_to_publish[r],
                                 LAMBDA m : store[m.documentId].status = "received"), r)
    /\ pc' = [pc EXCEPT ![r] = "loop"]
    /\ messages_to_publish' = [messages_to_publish EXCEPT ![r] = <<>>]
    /\ UNCHANGED <<BATCH_SIZE, MAX_DOCUMENTS_PER_REQUEST, sink, acked, failed,
                   total_processed, attempts, response, iterations, batches,
                   claimed, auth_header, awaited, error_log>>

\* the commit is refused (a document read was written by another transaction);
\* the transactional wrapper runs the function again from scratch
TxConflict(r) ==
    /\ pc[r] = "tx"
    /\ Conflict(r)
    /\ attempts[r] < MaxAttempts
    /\ pc' = [pc EXCEPT ![r] = "loop"]
    /\ messages_to_publish' = [messages_to_publish EXCEPT ![r] = <<>>]
    /\ UNCHANGED <<BATCH_SIZE, MAX_DOCUMENTS_PER_REQUEST, store, sink, acked, failed,
                   total_processed, attempts, response, iterations, batches,
                   claimed>>
    /\ UNCHANGED <<auth_header, awaited, error_log>>

\* the commit is refused on the last attempt: the wrapper raises, start_workflow
\* catches it and answers 500
TxGiveUp(r) ==
    /\ pc[r] = "tx"
    /\ Conflict(r)
    /\ attempts[r] >= MaxAttempts
    /\ pc' = [pc EXCEPT ![r] = "done"]
    /\ response' = [response EXCEPT ![r] = InternalError]
    /\ messages_to_publish' = [messages_to_publish EXCEPT ![r] = <<>>]
    /\ attempts' = [attempts EXCEPT ![r] = 0]
    /\ UNCHANGED <<BATCH_SIZE, MAX_DOCUMENTS_PER_REQUEST, store, sink, acked, failed,
                   total_processed, iterations, batches, claimed>>
    /\ error_log' = [error_log EXCEPT ![r] = @ \cup {ErrorEntry(r)}]
    /\ UNCHANGED <<auth_header, awaited>>

\* the store is unavailable while the query is streamed or the commit is sent:
\* nothing is written, the exception is caught and answered 500
StoreFail(r) ==
    /\ \/ pc[r] = "loop" /\ LoopTest(r)
       \/ pc[r] = "tx"
    /\ iterations' = [iterations EXCEPT ![r] =
                         IF pc[r] = "loop" /\ attempts[r] = 0 THEN CountUp(@) ELSE @]
    /\ pc' = [pc EXCEPT ![r] = "done"]
    /\ response' = [response EXCEPT ![r] = InternalError]
    /\ messages_to_publish' = [messages_to_publish EXCEPT ![r] = <<>>]
    /\ attempts' = [attempts EXCEPT ![r] = 0]
    /\ UNCHANGED <<BATCH_SIZE, MAX_DOCUMENTS_PER_REQUEST, store, sink, acked, failed,
                   total_processed, batches, claimed>>
    /\ error_log' = [error_log EXCEPT ![r] = @ \cup {ErrorEntry(r)}]
    /\ UNCHANGED <<auth_header, awaited>>

\* the while test fails: the cap is reached and the success response is sent
LoopExit(r) ==
    /\ pc[r] = "loop"
    /\ ~LoopTest(r)
    /\ pc' = [pc EXCEPT ![r] = "done"]
    /\ response' = [response EXCEPT ![r] = Success(r)]
    /\ UNCHANGED <<BATCH_SIZE, MAX_DOCUMENTS_PER_REQUEST, store, sink, acked, failed,
                   total_processed, messages_to_publish, attempts, iterations,
                   batches, claimed>>
    /\ UNCHANGED <<auth_header, awaited, error_log>>

\* mutant of Publish: every message is handed to publisher.publish a second time
PublishTwice(r) ==
    /\ pc[r] = "publish"
    /\ sink' = AddAll(AddAll(sink, messages_to_publish[r]), messages_to_publish[r])
    /\ pc' = [pc EXCEPT ![r] = "wait"]
    /\ UNCHANGED <<BATCH_SIZE, MAX_DOCUMENTS_PER_REQUEST, store, acked, failed,
                   total_processed, messages_to_publish, attempts, response,
                   iterations, batches, claimed, auth_header, awaited, error_log>>

\* mutant of Publish: the futures are not waited for, the batch is counted at once
PublishNoWait(r) ==
    /\ pc[r] = "publish"
    /\ sink' = AddAll(sink, messages_to_publish[r])
    /\ total_processed' = [total_processed EXCEPT ![r] = @ + Len(messages_to_publish[r])]
    /\ messages_to_publish' = [messages_to_publish EXCEPT ![r] = <<>>]
    /\ pc' = [pc EXCEPT ![r] = "loop"]
    /\ UNCHANGED <<BATCH_SIZE, MAX_DOCUMENTS_PER_REQUEST, store, acked, failed,
                   attempts, response, iterations, batches, claimed,
                   auth_header, awaited, error_log>>

\* the for loop over messages_to_publish: every message is handed to publisher.publish
Publish(r) ==
    /\ pc[r] = "publish"
    /\ sink' = AddAll(sink, messages_to_publish[r])
    /\ pc' = [pc EXCEPT ![r] = "wait"]
    /\ UNCHANGED <<BATCH_SIZE, MAX_DOCUMENTS_PER_REQUEST, store, acked, failed,
                   total_processed, messages_to_publish, attempts, response,
                   iterations, batches, claimed>>
    /\ UNCHANGED <<auth_header, awaited, error_log>>

\* publisher.publish raises for the message at position k: the messages before it
\* are in the sink, the others are never handed over, the answer is 500
PublishRaise(r) ==
    /\ pc[r] = "publish"
    /\ \E k \in 1..Len(messages_to_publish[r]) :
          /\ sink' = AddAll(sink, SubSeq(messages_to_publish[r], 1, k - 1))
          /\ failed' = AddAll(failed, SubSeq(messages_to_publish[r], k, k))
    /\ pc' = [pc EXCEPT ![r] = "done"]
    /\ response' = [response EXCEPT ![r] = InternalError]
    /\ messages_to_publish' = [messages_to_publish EXCEPT ![r] = <<>>]
    /\ UNCHANGED <<BATCH_SIZE, MAX_DOCUMENTS_PER_REQUEST, store, acked,
                   total_processed, attempts, iterations, batches, claimed>>
    /\ error_log' = [error_log EXCEPT ![r] = @ \cup {ErrorEntry(r)}]
    /\ UNCHANGED <<auth_header, awaited>>

\* mutant of AwaitAll: the batch is not added to total_processed
AwaitAllUncounted(r) ==
    /\ pc[r] = "wait"
    /\ acked' = AddAll(acked, messages_to_publish[r])
    /\ messages_to_publish' = [messages_to_publish EXCEPT ![r] = <<>>]
    /\ pc' = [pc EXCEPT ![r] = "loop"]
    /\ UNCHANGED <<BATCH_SIZE, MAX_DOCUMENTS_PER_REQUEST, store, sink, failed,
                   total_processed, attempts, response, iterations, batches, claimed>>
    /\ awaited' = [awaited EXCEPT ![r] = @ \cup DocIds(messages_to_publish[r])]
    /\ UNCHANGED <<auth_header, error_log>>

\* every future.result() returns: the batch is counted and the loop goes on
AwaitAll(r) ==
    /\ pc[r] = "wait"
    /\ acked' = AddAll(acked, messages_to_publish[r])
    /\ total_processed' = [total_processed EXCEPT ![r] = @ + Len(messages_to_publish[r])]
    /\ messages_to_publish' = [messages_to_publish EXCEPT ![r] = <<>>]
    /\ pc' = [pc EXCEPT ![r] = "loop"]
    /\ UNCHANGED <<BATCH_SIZE, MAX_DOCUMENTS_PER_REQUEST, store, sink, failed,
                   attempts, response, iterations, batches, claimed>>
    /\ awaited' = [awaited EXCEPT ![r] = @ \cup DocIds(messages_to_publish[r])]
    /\ UNCHANGED <<auth_header, error_log>>

\* mutant of AwaitFail: the failure is logged inside the loop and the run goes on
\* with the next batch
AwaitFailContinue(r) ==
    /\ pc[r] = "wait"
    /\ \E F \in (SUBSET (1..Len(messages_to_publish[r]))) \ {{}} :
          /\ failed' = AddAll(failed, SelectSeq(messages_to_publish[r],
                                   LAMBDA m : \E k \in F : messages_to_publish[r][k] = m))
          /\ acked' = AddAll(acked, SelectSeq(messages_to_publish[r],
                                   LAMBDA m : ~ \E k \in F : messages_to_publish[r][k] = m))
          /\ awaited' = [awaited EXCEPT ![r] =
                 @ \cup {messages_to_publish[r][k].documentId : k \in 1..FirstOf(F)}]
    /\ pc' = [pc EXCEPT ![r] = "loop"]
    /\ messages_to_publish' = [messages_to_publish EXCEPT ![r] = <<>>]
    /\ error_log' = [error_log EXCEPT ![r] = @ \cup {ErrorEntry(r)}]
    /\ UNCHANGED <<BATCH_SIZE, MAX_DOCUMENTS_PER_REQUEST, store, sink, response,
                   total_processed, attempts, iterations, batches, claimed, auth_header>>

\* mutant of AwaitFail: the except branch gives the batch back (status 'received')
AwaitFailRollback(r) ==
    /\ pc[r] = "wait"
    /\ \E F \in (SUBSET (1..Len(messages_to_publish[r]))) \ {{}} :
          /\ failed' = AddAll(failed, SelectSeq(messages_to_publish[r],
                                   LAMBDA m : \E k \in F : messages_to_publish[r][k] = m))
          /\ acked' = AddAll(acked, SelectSeq(messages_to_publish[r],
                                   LAMBDA m : ~ \E k \in F : messages_to_publish[r][k] = m))
          /\ awaited' = [awaited EXCEPT ![r] =
                 @ \cup {messages_to_publish[r][k].documentId : k \in 1..FirstOf(F)}]
    /\ store' = [i \in Items |->
                    IF i \in DocIds(messages_to_publish[r])
                    THEN [store[i] EXCEPT !.status = "received"]
                    ELSE store[i]]
    /\ pc' = [pc EXCEPT ![r] = "done"]
    /\ response' = [response EXCEPT ![r] = InternalError]
    /\ messages_to_publish' = [messages_to_publish EXCEPT ![r] = <<>>]
    /\ UNCHANGED <<BATCH_SIZE, MAX_DOCUMENTS_PER_REQUEST, sink,
                   total_processed, attempts, iterations, batches, claimed>>
    /\ error_log' = [error_log EXCEPT ![r] = @ \cup {ErrorEntry(r)}]
    /\ UNCHANGED auth_header

\* the sink fails for the messages at positions F of the batch: the first failed
\* future.result() raises, the batch is not counted, the answer is 500
AwaitFail(r) ==
    /\ pc[r] = "wait"
    /\ \E F \in (SUBSET (1..Len(messages_to_publish[r]))) \ {{}} :
          /\ failed' = AddAll(failed, SelectSeq(messages_to_publish[r],
                                   LAMBDA m : \E k \in F : messages_to_publish[r][k] = m))
          /\ acked' = AddAll(acked, SelectSeq(messages_to_publish[r],
                                   LAMBDA m : ~ \E k \in F : messages_to_publish[r][k] = m))
          /\ awaited' = [awaited EXCEPT ![r] =
                 @ \cup {messages_to_publish[r][k].documentId : k \in 1..FirstOf(F)}]
    /\ pc' = [pc EXCEPT ![r] = "done"]
    /\ response' = [response EXCEPT ![r] = InternalError]
    /\ messages_to_publish' = [messages_to_publish EXCEPT ![r] = <<>>]
    /\ UNCHANGED <<BATCH_SIZE, MAX_DOCUMENTS_PER_REQUEST, store, sink,
                   total_processed, attempts, iterations, batches, claimed>>
    /\ error_log' = [error_log EXCEPT ![r] = @ \cup {ErrorEntry(r)}]
    /\ UNCHANGED auth_header

\* upstream ingestion creates a document with status 'received'
Ingest(i) ==
    /\ store[i].status = "absent"
    /\ store' = [store EXCEPT ![i].status = "received"]
    /\ UNCHANGED <<BATCH_SIZE, MAX_DOCUMENTS_PER_REQUEST, sink, acked, failed, pc,
                   total_processed, messages_to_publish, attempts, response,
                   iterations, batches, claimed>>
    /\ UNCHANGED <<auth_header, awaited, error_log>>

Next ==
    \/ \E r \in Runs : AuthMissing(r)
    \/ \E r \in Runs : AuthInvalid(r)
    \/ \E r \in Runs : AuthRaise(r)
    \/ \E r \in Runs : Start(r)
    \/ \E r \in Runs : ClientInitFail(r)
    \/ \E r \in Runs : TxRead(r)
    \/ \E r \in Runs : TxCommit(r)
    \/ \E r \in Runs : TxConflict(r)
    \/ \E r \in Runs : TxGiveUp(r)
    \/ \E r \in Runs : StoreFail(r)
    \/ \E r \in Runs : LoopExit(r)
    \/ \E r \in Runs : Publish(r)
    \/ \E r \in Runs : PublishRaise(r)
    \/ \E r \in Runs : AwaitAll(r)
    \/ \E r \in Runs : AwaitFail(r)
    \/ \E i \in Items : Ingest(i)

Spec == Init /\ [][Next]_vars

\* A single invocation with nobody else writing the store and no failure:
\* no second run, no ingestion, the store and the sink always answer.
Solo == "batch-1"

SoloNext ==
    \/ Start(Solo)
    \/ TxRead(Solo)
    \/ TxCommit(Solo)
    \/ LoopExit(Solo)
    \/ Publish(Solo)
    \/ AwaitAll(Solo)

SoloSpec == Init /\ [][SoloNext]_vars

\* Every call the handler blocks on returns: a run that can take a step that is
\* not a failure of the store or of the sink eventually takes one (or fails).
Proceed(r) ==
    \/ TxRead(r)
    \/ TxCommit(r)
    \/ TxConflict(r)
    \/ TxGiveUp(r)
    \/ LoopExit(r)
    \/ Publish(r)
    \/ AwaitAll(r)

FairSpec == Spec /\ \A r \in Runs : WF_vars(Proceed(r))

\* ------------------------------------------------------------------ properties
RECURSIVE SumOver(_, _)
SumOver(f, S) == IF S = {} THEN 0 ELSE LET x == CHOOSE y \in S : TRUE IN f[x] + SumOver(f, S \ {x})

\* how many items the claim calls of run r returned, counted with repetition
ClaimedCount(r) == SumOver(claimed[r], Items)

\* how many times item i was returned by a claim call of any run
TimesClaimed(i) == SumOver([r \in Runs |-> claimed[r][i]], Runs)

CeilDiv(a, b) == (a + b - 1) \div b

\* C1: no item is ever returned by two claim calls, be they of two concurrent
\* runs or of two batches of one run.
NoDoubleClaim == \A i \in Items : TimesClaimed(i) <= 1

\* C1 witness: a run holds an item in its open transaction that another run has
\* claimed since the read.
RacingClaim ==
    \E r \in Runs : \E i \in DocIds(messages_to_publish[r]) :
        /\ pc[r] = "tx"
        /\ store[i].status = "queued"
        /\ store[i].batchId # r
        /\ TimesClaimed(i) = 1

\* C2: whenever a message is handed to the sink, the record it names is already
\* committed as 'queued'; no message in the sink names a 'received' item.
ClaimBeforePublish ==
    /\ [][\A m \in Messages : sink'[m] > sink[m] => store[m[1]].status = "queued"]_vars
    /\ [](\A m \in Messages : sink[m] > 0 => store[m[1]].status = "queued")

\* C2 witness: a run has handed its batch to the sink and waits for the acknowledgments.
PublishedAfterCommit ==
    \E m \in Messages : sink[m] > 0 /\ pc[m[2]] = "wait" /\ store[m[1]].batchId = m[2]

\* C3 (as claimed): a run never claims more than MAX_DOCUMENTS_PER_REQUEST items
\* and the processedCount it returns is at most that cap.
CapRespected ==
    \A r \in Runs :
        /\ ClaimedCount(r) <= MAX_DOCUMENTS_PER_REQUEST
        /\ response[r].code = 200 => response[r].processedCount <= MAX_DOCUMENTS_PER_REQUEST

\* C4 (as claimed): a run begins at most ceil(M/B) loop iterations.
IterationsWithinCeil ==
    \A r \in Runs : iterations[r] <= CeilDiv(MAX_DOCUMENTS_PER_REQUEST, BATCH_SIZE)

\* C4 (amended): a run begins at most MAX_DOCUMENTS_PER_REQUEST loop iterations,
\* each one call of update_docs_and_prepare_messages, whatever the backlog, the
\* other runs and the ingestion do.
IterationsWithinCap ==
    \A r \in Runs : iterations[r] <= MAX_DOCUMENTS_PER_REQUEST

\* C4 witness: a finished run that used all MAX_DOCUMENTS_PER_REQUEST iterations,
\* more than ceil(M/B).
ManyShortBatches ==
    \E r \in Runs :
        /\ pc[r] = "done"
        /\ iterations[r] = MAX_DOCUMENTS_PER_REQUEST
        /\ iterations[r] > CeilDiv(MAX_DOCUMENTS_PER_REQUEST, BATCH_SIZE)

\* C5: under FairSpec every behaviour reaches a point from which each invocation
\* that began has answered (an invocation that has answered never runs again):
\* no run loops forever, whatever the other run and the ingestion do.
Termination == <>[](\A r \in Runs : pc[r] \in {"idle", "done"})

\* C5 witness: a run has ended after several iterations while the other run
\* was claiming from the same backlog.
EndedUnderContention ==
    \E r, q \in Runs :
        /\ r # q
        /\ pc[r] = "done"
        /\ iterations[r] >= 2
        /\ ClaimedCount(q) >= 1

\* the documents of the collection; under SoloSpec, where nothing is ingested,
\* they are the items eligible when the run begins
Present == {i \in Items : store[i].status # "absent"}

\* C6 (as claimed): a lone run that finds 0 < n < B eligible items (n < M)
\* returns processedCount = n and issues no claim after the short batch.
ExhaustionStopsAtOnce ==
    LET n == Cardinality(Present) IN
    (pc[Solo] = "done" /\ 0 < n /\ n < BATCH_SIZE /\ n < MAX_DOCUMENTS_PER_REQUEST)
        => /\ response[Solo] = [code |-> 200, processedCount |-> n, batchId |-> Solo]
           /\ batches[Solo] = <<n>>

\* C6 (amended): such a run returns processedCount = n and stops after exactly
\* one further claim, which returns an empty list.
ExhaustionStopsAfterEmptyClaim ==
    LET n == Cardinality(Present) IN
    (pc[Solo] = "done" /\ 0 < n /\ n < BATCH_SIZE /\ n < MAX_DOCUMENTS_PER_REQUEST)
        => /\ response[Solo] = [code |-> 200, processedCount |-> n, batchId |-> Solo]
           /\ batches[Solo] = <<n, 0>>
           /\ iterations[Solo] = 2

\* C6 witness: a lone run has ended on a backlog shorter than one batch.
ShortBacklogDone ==
    LET n == Cardinality(Present) IN
    pc[Solo] = "done" /\ 0 < n /\ n < BATCH_SIZE /\ n < MAX_DOCUMENTS_PER_REQUEST

\* the batch sizes B, B, ..., n mod B that drain n items
ExpectedBatches(n, b) ==
    [k \in 1..CeilDiv(n, b) |-> IF k * b <= n THEN b ELSE n % b]

\* C7: a lone run without failures on n <= M eligible items claims them in
\* non-empty batches of sizes B, ..., B, n mod B, returns processedCount = n,
\* leaves all n items 'queued' under its batchId and has exactly n publishes acknowledged.
MultiBatchDrain ==
    LET n == Cardinality(Present) IN
    (pc[Solo] = "done" /\ n <= MAX_DOCUMENTS_PER_REQUEST)
        => /\ response[Solo] = [code |-> 200, processedCount |-> n, batchId |-> Solo]
           /\ SelectSeq(batches[Solo], LAMBDA x : x > 0) = ExpectedBatches(n, BATCH_SIZE)
           /\ \A i \in Present :
                  store[i] = [status |-> "queued", queuedAt |-> "server_timestamp", batchId |-> Solo]
           /\ \A i \in Items : acked[<<i, Solo>>] = IF i \in Present THEN 1 ELSE 0
           /\ SumOver(acked, Messages) = n

\* C7 witness: a lone run has drained a backlog in a full batch and a remainder.
DrainedWithRemainder ==
    LET n == Cardinality(Present) IN
    /\ pc[Solo] = "done"
    /\ n <= MAX_DOCUMENTS_PER_REQUEST
    /\ n > BATCH_SIZE
    /\ n % BATCH_SIZE # 0

\* C8: a run whose first claim returns nothing answers 200 with processedCount 0,
\* has written no record and has published no message.
EmptyBacklog ==
    \A r \in Runs :
        (Len(batches[r]) >= 1 /\ batches[r][1] = 0)
            => /\ pc[r] = "done"
               /\ response[r] = [code |-> 200, processedCount |-> 0, batchId |-> r]
               /\ \A i \in Items :
                      store[i].batchId # r /\ claimed[r][i] = 0 /\ sink[<<i, r>>] = 0

\* C8 witness: a run has ended on an empty first claim.
EmptyFirstClaim == \E r \in Runs : pc[r] = "done" /\ batches[r] = <<0>>

\* C9: an item a run has claimed stays 'queued' under that run's batchId in every
\* later state, publish failure included, and no step changes a queued record.
NoRollback ==
    /\ [](\A r \in Runs : \A i \in Items :
             claimed[r][i] > 0 =>
                 store[i] = [status |-> "queued", queuedAt |-> "server_timestamp", batchId |-> r])
    /\ [][\A i \in Items : store[i].status = "queued" => store'[i] = store[i]]_vars

\* C9 witness: a run has answered 500 after a failed publish and the item is still queued.
FailedPublishStillQueued ==
    \E r \in Runs : \E i \in Items :
        /\ pc[r] = "done"
        /\ response[r].code = 500
        /\ failed[<<i, r>>] > 0
        /\ store[i].status = "queued"
        /\ store[i].batchId = r

\* C10 (as claimed): the result of a run in which some publish of a batch failed
\* reports a processedCount that includes every item the run has claimed.
PartialFailureCounted ==
    \A r \in Runs :
        (pc[r] = "done" /\ \E i \in Items : failed[<<i, r>>] > 0)
            => /\ "processedCount" \in DOMAIN response[r]
               /\ response[r].processedCount = ClaimedCount(r)

\* the items of run r whose publish failed
FailedOf(r) == {i \in Items : failed[<<i, r>>] > 0}

\* C11 (as claimed): when the publish of some messages of a run's batch has failed,
\* the run has waited for the outcome of every message it handed to the sink and
\* has logged a failure entry naming exactly the documentIds that failed.
PartialFailureReported ==
    \A r \in Runs :
        FailedOf(r) # {} =>
            /\ \A i \in Items : sink[<<i, r>>] > 0 => i \in awaited[r]
            /\ \E e \in error_log[r] : e.documentIds = FailedOf(r)

\* the header carries no non-empty bearer token
Malformed(h) == Len(h) < 2 \/ h[1] # "Bearer "

\* the header carries a bearer token that is not the one signed for this service
FailsVerification(h) == ~Malformed(h) /\ SubSeq(h, 2, Len(h)) # <<"valid">>

\* C12 (as claimed): a request the decorator has decided on is answered 401 when its
\* header is missing or carries no non-empty bearer token (the header "Bearer "
\* included), 403 when its token fails verification, and in neither case is it let
\* into the handler or answered 200.
AuthMapping ==
    \A r \in Runs :
        (pc[r] # "idle" /\ response[r] # Unhandled) =>
            /\ Malformed(auth_header[r]) => response[r] = Unauthorized
            /\ FailsVerification(auth_header[r]) => response[r] = Forbidden

\* something has been done on behalf of run r: a claim transaction begun, a record
\* stamped with its batchId, or a message handed to the sink or failed by it
HasEffect(r) ==
    \/ pc[r] \in {"loop", "tx", "publish", "wait"}
    \/ iterations[r] > 0
    \/ \E i \in Items : store[i].batchId = r \/ claimed[r][i] > 0
    \/ \E i \in Items : sink[<<i, r>>] > 0 \/ failed[<<i, r>>] > 0 \/ acked[<<i, r>>] > 0

\* C13: a run has an effect on the store or the sink only when the token of its
\* request is the one verify_oauth2_token accepts, and the step that rejects a
\* request (401, 403) changes neither the store nor the sink.
AuthBeforeEffects ==
    /\ [](\A r \in Runs :
             HasEffect(r) => /\ StartsWithBearer(auth_header[r])
                             /\ SplitBearer(auth_header[r]) = <<"valid">>
                             /\ response[r].code \notin {401, 403})
    /\ [][\A r \in Runs :
             (response[r].code = 0 /\ response'[r].code \in {401, 403}) =>
                 store' = store /\ sink' = sink /\ ~HasEffect(r)']_vars

\* C13 witness: one request has been rejected for a token that fails verification
\* while another, verified, has claimed and published.
RejectedBesidePublished ==
    \E r, q \in Runs :
        /\ response[r] = Forbidden
        /\ FailsVerification(auth_header[r])
        /\ \E i \in Items : sink[<<i, q>>] > 0 /\ store[i].batchId = q

\* C14 (as claimed): every request that ends without the success response ends in
\* one of the responses 401, 403 or 500 produced by the code's own error paths;
\* no exception leaves the decorator or the handler.
NoUnhandledFault ==
    \A r \in Runs :
        (pc[r] = "done" /\ response[r].code # 200) =>
            response[r] \in {Unauthorized, Forbidden, InternalError}

\* the messages run r has handed to the sink or had refused by it
Submitted(r) == SumOver([i \in Items |-> sink[<<i, r>>] + failed[<<i, r>>]], Items)

\* C15: a run in which a publish has failed is over and answered 500, and from the
\* moment a run has answered 500 it begins no claim transaction, hands no message
\* to the sink, writes no record and does not change its response.
FailStop ==
    /\ [](\A r \in Runs :
             FailedOf(r) # {} => pc[r] = "done" /\ response[r] = InternalError)
    /\ [](\A r \in Runs : error_log[r] # {} => pc[r] = "done" /\ response[r] = InternalError)
    /\ [][\A r \in Runs :
             response[r].code = 500 =>
                 /\ pc'[r] = "done"
                 /\ response'[r] = response[r]
                 /\ iterations'[r] = iterations[r]
                 /\ attempts'[r] = attempts[r]
                 /\ Submitted(r)' = Submitted(r)
                 /\ \A i \in Items : store'[i].batchId = r => store[i].batchId = r]_vars

\* C15 witness: a run failed on the publish of its second batch, the first one
\* acknowledged, and has answered 500.
FailedInSecondBatch ==
    \E r \in Runs :
        /\ response[r] = InternalError
        /\ Len(batches[r]) = 2
        /\ FailedOf(r) # {}
        /\ \E i \in Items : acked[<<i, r>>] > 0

\* the items run r has claimed and the sink has not acknowledged to it
Outstanding(r) == {i \in Items : claimed[r][i] > acked[<<i, r>>]}

\* C16: whenever a run is about to claim or is claiming, every item it has claimed
\* before is acknowledged; while it publishes or waits, the items not yet
\* acknowledged are exactly those of the one batch in hand; and the step that
\* begins a claim transaction starts from a state with nothing outstanding.
SequentialBatches ==
    /\ [](\A r \in Runs :
             /\ pc[r] \in {"loop", "tx"} => Outstanding(r) = {}
             /\ pc[r] \in {"publish", "wait"} =>
                    Outstanding(r) = DocIds(messages_to_publish[r]))
    /\ [][\A r \in Runs :
             (pc[r] # "tx" /\ pc'[r] = "tx") => Outstanding(r) = {}]_vars

\* C16 witness: a run waits for the acknowledgments of its second batch, its first
\* batch acknowledged, while the other run has a batch of its own in flight.
SecondBatchInFlight ==
    \E r, q \in Runs :
        /\ r # q
        /\ pc[r] = "wait"
        /\ Len(batches[r]) = 2
        /\ \E i \in Items : acked[<<i, r>>] > 0
        /\ pc[q] \in {"publish", "wait"}

\* C17: the step in which a commit is refused (the run leaves the transaction for a
\* retry or for the 500 answer) changes no record and no message and drops the list
\* it had prepared; every message of a run, submitted or in hand, is for an item
\* that a committed attempt of that run has stamped with the run's batchId.
AtomicClaim ==
    /\ [][\A r \in Runs :
             (pc[r] = "tx" /\ (pc'[r] = "loop" \/ response'[r].code = 500)) =>
                 /\ store' = store
                 /\ sink' = sink
                 /\ claimed' = claimed
                 /\ messages_to_publish'[r] = <<>>]_vars
    /\ [](\A r \in Runs : \A i \in Items :
             (sink[<<i, r>>] > 0 \/ failed[<<i, r>>] > 0
                  \/ (pc[r] \in {"publish", "wait"} /\ i \in DocIds(messages_to_publish[r])))
                 => /\ claimed[r][i] = 1
                    /\ store[i].status = "queued"
                    /\ store[i].batchId = r)

\* C17 witness: the commit of a run was refused after the other run took an item
\* it had read; the run is back at the start of the transaction with none of the
\* items stamped with its batchId and none of its messages submitted.
RefusedCommit ==
    \E r, q \in Runs :
        /\ r # q
        /\ pc[r] = "loop"
        /\ attempts[r] > 0
        /\ \E i \in Items : store[i].batchId = q
        /\ \A i \in Items : store[i].batchId # r /\ sink[<<i, r>>] = 0

\* how many messages naming item i were handed to the sink, by any run
TimesSubmitted(i) == SumOver([r \in Runs |-> sink[<<i, r>>]], Runs)

\* C18: once the publish loop of a batch has run through (the run waits, goes on or
\* has answered 200), the sink holds for that run one message for each item its
\* claims returned and none for any other item; a run never has more messages than
\* claims for an item, and over all runs no item has two messages.
OneMessagePerItem ==
    /\ \A r \in Runs :
          (pc[r] \in {"wait", "loop", "tx"} \/ response[r].code = 200) =>
              \A i \in Items : sink[<<i, r>>] = claimed[r][i]
    /\ \A r \in Runs : \A i \in Items : sink[<<i, r>>] <= claimed[r][i]
    /\ \A i \in Items : TimesSubmitted(i) <= 1

\* C18 witness: both runs have published, one of them a batch of two items, each
\* item of the store with exactly one message.
AllPublishedOnce ==
    \E r, q \in Runs :
        /\ r # q
        /\ pc[r] = "wait" /\ Len(messages_to_publish[r]) = 2
        /\ \E i \in Items : sink[<<i, q>>] = 1
        /\ \A i \in Items : TimesSubmitted(i) = 1

\* C19: a step changes a record of the store only from 'received' to 'queued' with
\* a run's batchId and the server timestamp (or, upstream of the service, by
\* creating it as 'received'); a record that is 'queued' carries the batchId of the
\* one run whose claim returned it, and every message in the sink carries the
\* batchId stored on its item.
SingleMutation ==
    /\ [][\A i \in Items :
             store'[i] # store[i] =>
                 \/ /\ store[i].status = "received"
                    /\ store'[i].status = "queued"
                    /\ store'[i].queuedAt = "server_timestamp"
                    /\ store'[i].batchId \in Runs
                 \/ /\ store[i].status = "absent"
                    /\ store'[i] = [store[i] EXCEPT !.status = "received"]]_vars
    /\ [](\A i \in Items :
             /\ store[i].status = "queued" <=> store[i].batchId \in Runs
             /\ store[i].status = "queued" =>
                    \A r \in Runs : claimed[r][i] = (IF store[i].batchId = r THEN 1 ELSE 0))
    /\ [](\A m \in Messages : sink[m] > 0 => store[m[1]].batchId = m[2])

\* C19 witness: a run that has queued and published item j read item i as
\* 'received', the other run queued and published i first, and the first run's
\* commit was refused: i keeps the other run's batchId and its one message.
StampKept ==
    \E r, q \in Runs : \E i, j \in Items :
        /\ r # q /\ i # j
        /\ pc[r] = "loop" /\ attempts[r] > 0
        /\ store[i].batchId = q /\ sink[<<i, q>>] = 1
        /\ store[j].batchId = r /\ sink[<<j, r>>] = 1
        /\ claimed[r][i] = 0

\* the items whose record carries the batchId of run r
StampedBy(r) == {i \in Items : store[i].batchId = r}

\* the messages of run r the sink has acknowledged
AckedCount(r) == SumOver([i \in Items |-> acked[<<i, r>>]], Items)

\* C20: a run that has answered 200 reports a processedCount equal to the number of
\* records carrying its batchId and to the number of its acknowledged messages, and
\* every item it has claimed has an acknowledged message.
SuccessCountAgrees ==
    \A r \in Runs :
        response[r].code = 200 =>
            /\ response[r].processedCount = Cardinality(StampedBy(r))
            /\ response[r].processedCount = AckedCount(r)
            /\ \A i \in Items : claimed[r][i] > 0 => acked[<<i, r>>] > 0
            /\ \A i \in StampedBy(r) : store[i].status = "queued" /\ acked[<<i, r>>] = 1

\* C20 witness: both runs have answered 200, one of them after two batches, and
\* between them they report every item of the store.
BothSucceeded ==
    \E r, q \in Runs :
        /\ r # q
        /\ response[r].code = 200 /\ response[q].code = 200
        /\ Len(batches[r]) >= 2 /\ response[r].processedCount >= 2
        /\ response[q].processedCount >= 1
        /\ response[r].processedCount + response[q].processedCount = NumItems

====
